---- MODULE Spec2Model ----
(***************************************************************************)
(* GeckoBootloaderImage (src/src/GeckoBootloaderImage.js): the tag-dispatch *)
(* loop of parse(), the per-tag decoders, calculateCRC32() and isValid().   *)
(* GeckoBootloaderClient (src/src/GeckoBootloaderClient.js): the writes of  *)
(* flashFirmware() and its checks of the abort signal.                      *)
(*                                                                          *)
(* Numbers.  A JavaScript number read by getUint32 is an unsigned 32-bit    *)
(* value; it is kept as its two 16-bit halves [hi, lo] (an injective        *)
(* encoding, so === is equality of the halves).  Num(w) is the integer it   *)
(* denotes and is taken only of payload lengths, which the inputs keep      *)
(* below 2^30.  The bytes of a view (Uint8Array over the buffer) are kept   *)
(* by content: no operation of the class writes to the buffer.              *)
(* A nullable field is <<>> (null) or <<v>>.                                *)
(***************************************************************************)
EXTENDS Integers, Sequences, FiniteSets, TLC

\* Bounds of the model.
MaxRecords == 2     \* records between the leading header and the trailer
MaxParses == 2      \* calls of parse() on one image
SmallChunkSize == 14    \* a chunkSize below the length of the images flashed

---------------------------------------------------------------------------
(* 32-bit words                                                            *)

W(h, l) == [hi |-> h, lo |-> l]
Num(w) == w.hi * 65536 + w.lo
FromNum(n) == W(n \div 65536, n % 65536)

Null == <<>>
Some(v) == <<v>>

GBL_VERSION == W(\h0300, \h0000)

\* flashFirmware(data, { chunkSize = 64 })
DefaultChunkSize == 64

GBL_TAG_ID_HEADER_V3 == W(\h03A6, \h17EB)
GBL_TAG_ID_BOOTLOADER == W(\hF509, \h09F5)
GBL_TAG_ID_APPLICATION == W(\hF40A, \h0AF4)
GBL_TAG_ID_METADATA == W(\hF608, \h08F6)
GBL_TAG_ID_PROG == W(\hFE01, \h01FE)
GBL_TAG_ID_PROG_LZ4 == W(\hFD05, \h05FD)
GBL_TAG_ID_PROG_LZMA == W(\hFD07, \h07FD)
GBL_TAG_ID_ERASEPROG == W(\hFD03, \h03FD)
GBL_TAG_ID_END == W(\hFC04, \h04FC)
GBL_TAG_ID_SE_UPGRADE == W(\h5EA6, \h17EB)
GBL_TAG_ID_VERSION_DEPENDENCY == W(\h76A6, \h17EB)
GBL_TAG_ID_ENC_INIT == W(\hFA06, \h06FA)
GBL_TAG_ID_ENC_GBL_DATA == W(\hF907, \h07F9)
GBL_TAG_ID_CERTIFICATE == W(\hF30B, \h0BF3)
GBL_TAG_ID_SIGNATURE == W(\hF70A, \h0AF7)

---------------------------------------------------------------------------
(* DataView and Uint8Array over the buffer.  Offsets count from 0, as in   *)
(* the source; buf[k + 1] is the byte at offset k.  An access is in bounds *)
(* when it ends at or before byteLength; otherwise the built-in throws     *)
(* RangeError.                                                             *)

byteLength(buf) == Len(buf)

InBounds(buf, offset, n) == offset + n <= byteLength(buf)

getUint8(buf, offset) == buf[offset + 1]

getUint16(buf, offset) == buf[offset + 1] + 256 * buf[offset + 2]

getUint32(buf, offset) ==
    W(buf[offset + 3] + 256 * buf[offset + 4], buf[offset + 1] + 256 * buf[offset + 2])

Uint8Array(buf, offset, length) == SubSeq(buf, offset + 1, offset + length)

\* The outcome of a decoder: a value, or the exception it threw.
Ret(v) == [err |-> "none", val |-> Some(v)]
Throw(e) == [err |-> e, val |-> Null]

---------------------------------------------------------------------------
(* calculateCRC32: reflected CRC32, one bit per round, on 32-bit words.    *)

\* The operator ^ on 16-bit halves: bit by bit, tabulated by byte.
RECURSIVE XorBits(_, _)
XorBits(a, b) ==
    IF a = 0 THEN b
    ELSE IF b = 0 THEN a
    ELSE (((a % 2) + (b % 2)) % 2) + 2 * XorBits(a \div 2, b \div 2)

XorTable == [a \in 0..255 |-> [b \in 0..255 |-> XorBits(a, b)]]

Xor(a, b) == XorTable[a % 256][b % 256] + 256 * XorTable[a \div 256][b \div 256]

\* crc = (crc >>> 1) ^ (0xedb88320 & -(crc & 1))
CrcRound(crc) ==
    LET shifted == W(crc.hi \div 2, (crc.lo \div 2) + (crc.hi % 2) * 32768)
    IN  IF crc.lo % 2 = 1
        THEN W(Xor(shifted.hi, \hEDB8), Xor(shifted.lo, \h8320))
        ELSE shifted

\* for (let j = 0; j < 8; j++) ...
\* (crc.lo < 0 never holds: testing it makes TLC evaluate the accumulator at
\* each iteration instead of building one nested suspended computation.)
RECURSIVE CrcRounds(_, _)
CrcRounds(crc, j) ==
    IF j >= 8 \/ crc.lo < 0 THEN crc ELSE CrcRounds(CrcRound(crc), j + 1)

\* crc ^= byte; then the eight rounds
CrcByte(crc, byte) == CrcRounds(W(crc.hi, Xor(crc.lo, byte)), 0)

\* for (let i = 0; i < buf.length; i++) ...: the iterations lo <= i < hi, in
\* increasing order of i, starting from crc.  (The range is halved rather
\* than walked, and first.lo < 0, which never holds, is tested, so that the
\* evaluation stays shallow on long buffers.)
RECURSIVE CrcLoop(_, _, _, _)
CrcLoop(buf, lo, hi, crc) ==
    IF hi <= lo THEN crc
    ELSE IF hi = lo + 1 THEN CrcByte(crc, buf[lo + 1])
    ELSE LET mid == (lo + hi) \div 2
             first == CrcLoop(buf, lo, mid, crc)
         IN  IF first.lo < 0 THEN first ELSE CrcLoop(buf, mid, hi, first)

\* The checksum of a byte sequence: initial value and final XOR 0xffffffff.
CRC32(bytes) ==
    LET crc == CrcLoop(bytes, 0, Len(bytes), W(\hFFFF, \hFFFF))
    IN  W(Xor(crc.hi, \hFFFF), Xor(crc.lo, \hFFFF))

\* Faulty variant: the checksum also covers the last four bytes.
CrcRangeLength_whole(buf) == byteLength(buf)

\* The range new Uint8Array(buffer, 0, byteLength - 4) covers.
CrcRangeLength(buf) == byteLength(buf) - 4

\* calculateCRC32(): the Uint8Array constructor throws RangeError on a
\* negative length.
calculateCRC32(buf) ==
    IF CrcRangeLength(buf) < 0
    THEN Throw("RangeError")
    ELSE Ret(CRC32(Uint8Array(buf, 0, CrcRangeLength(buf))))

---------------------------------------------------------------------------
(* The tag decoders.  Each checks the declared length first and then reads *)
(* its fields in source order; the first access that leaves the buffer     *)
(* throws RangeError.                                                      *)

parseHeaderTag(buf, offset, length) ==
    IF length # 8 THEN Throw("Invalid header tag length")
    ELSE IF ~InBounds(buf, offset, 4) \/ ~InBounds(buf, offset + 4, 4)
    THEN Throw("RangeError")
    ELSE Ret([version |-> getUint32(buf, offset),
              typeFlags |-> getUint32(buf, offset + 4)])

parseBootloaderTag(buf, offset, length) ==
    IF length < 8 THEN Throw("Invalid bootloader tag length")
    ELSE IF \/ ~InBounds(buf, offset + 3, 1)
            \/ ~InBounds(buf, offset + 2, 1)
            \/ ~InBounds(buf, offset, 2)
            \/ ~InBounds(buf, offset + 4, 4)
            \/ ~InBounds(buf, offset + 8, length - 8)
    THEN Throw("RangeError")
    ELSE Ret([bootloaderVersion |->
                  [major |-> getUint8(buf, offset + 3),
                   minor |-> getUint8(buf, offset + 2),
                   customer |-> getUint16(buf, offset)],
              address |-> getUint32(buf, offset + 4),
              data |-> Uint8Array(buf, offset + 8, length - 8)])

parseApplicationInfoTag(buf, offset, length) ==
    IF length # 28 THEN Throw("Invalid application info tag length")
    ELSE IF \/ ~InBounds(buf, offset, 4)
            \/ ~InBounds(buf, offset + 4, 4)
            \/ ~InBounds(buf, offset + 8, 4)
            \/ ~InBounds(buf, offset + 12, 16)
    THEN Throw("RangeError")
    ELSE Ret([type |-> getUint32(buf, offset),
              version |-> getUint32(buf, offset + 4),
              capabilities |-> getUint32(buf, offset + 8),
              productId |-> Uint8Array(buf, offset + 12, 16)])

parseMetadataTag(buf, offset, length) ==
    IF ~InBounds(buf, offset, length) THEN Throw("RangeError")
    ELSE Ret(Uint8Array(buf, offset, length))

parseProgTag(buf, offset, length, compression) ==
    IF length < 4 THEN Throw("Invalid program data tag length")
    ELSE IF ~InBounds(buf, offset, 4) \/ ~InBounds(buf, offset + 4, length - 4)
    THEN Throw("RangeError")
    ELSE Ret([flashStartAddress |-> getUint32(buf, offset),
              data |-> Uint8Array(buf, offset + 4, length - 4),
              compression |-> compression])

\* Faulty variant: a minimum instead of an exact length.
parseEndTag_minimum(buf, offset, length) ==
    IF length < 4 THEN Throw("Invalid end tag length")
    ELSE IF ~InBounds(buf, offset, 4) THEN Throw("RangeError")
    ELSE Ret(getUint32(buf, offset))

parseEndTag(buf, offset, length) ==
    IF length # 4 THEN Throw("Invalid end tag length")
    ELSE IF ~InBounds(buf, offset, 4) THEN Throw("RangeError")
    ELSE Ret(getUint32(buf, offset))

parseSeUpgradeTag(buf, offset, length) ==
    IF length < 8 THEN Throw("Invalid SE upgrade tag length")
    ELSE IF \/ ~InBounds(buf, offset, 4)
            \/ ~InBounds(buf, offset + 4, 4)
            \/ ~InBounds(buf, offset + 8, length - 8)
    THEN Throw("RangeError")
    ELSE Ret([blobSize |-> getUint32(buf, offset),
              version |-> getUint32(buf, offset + 4),
              data |-> Uint8Array(buf, offset + 8, length - 8)])

parseVersionDependencyTag(buf, offset, length) ==
    IF length # 8 THEN Throw("Invalid version dependency tag length")
    ELSE IF \/ ~InBounds(buf, offset, 1)
            \/ ~InBounds(buf, offset + 1, 1)
            \/ ~InBounds(buf, offset + 4, 4)
    THEN Throw("RangeError")
    ELSE Ret([imageType |-> getUint8(buf, offset),
              statement |-> getUint8(buf, offset + 1),
              version |-> getUint32(buf, offset + 4)])

parseEncryptionInitTag(buf, offset, length) ==
    IF length # 16 THEN Throw("Invalid encryption init tag length")
    ELSE IF ~InBounds(buf, offset, 4) \/ ~InBounds(buf, offset + 4, 12)
    THEN Throw("RangeError")
    ELSE Ret([msgLen |-> getUint32(buf, offset),
              nonce |-> Uint8Array(buf, offset + 4, 12)])

parseEncryptionDataTag(buf, offset, length) ==
    IF ~InBounds(buf, offset, length) THEN Throw("RangeError")
    ELSE Ret(Uint8Array(buf, offset, length))

parseSignatureTag(buf, offset, length) ==
    IF length # 64 THEN Throw("Invalid signature tag length")
    ELSE IF ~InBounds(buf, offset, 32) \/ ~InBounds(buf, offset + 32, 32)
    THEN Throw("RangeError")
    ELSE Ret([r |-> Uint8Array(buf, offset, 32),
              s |-> Uint8Array(buf, offset + 32, 32)])

parseCertificateTag(buf, offset, length) ==
    IF length # 136 THEN Throw("Invalid certificate tag length")
    ELSE IF \/ ~InBounds(buf, offset, 1)
            \/ ~InBounds(buf, offset + 1, 3)
            \/ ~InBounds(buf, offset + 4, 64)
            \/ ~InBounds(buf, offset + 68, 4)
            \/ ~InBounds(buf, offset + 72, 64)
    THEN Throw("RangeError")
    ELSE Ret([structVersion |-> getUint8(buf, offset),
              flags |-> Uint8Array(buf, offset + 1, 3),
              key |-> Uint8Array(buf, offset + 4, 64),
              version |-> getUint32(buf, offset + 68),
              signature |-> Uint8Array(buf, offset + 72, 64)])

---------------------------------------------------------------------------
(* The image and the dispatch of parse().                                  *)

\* The field initialisers of the class.
NewImage ==
    [header |-> Null, bootloader |-> Null, application |-> Null,
     metadata |-> <<>>, prog |-> <<>>, seUpgrade |-> Null,
     versionDependency |-> Null, encryptionInit |-> Null,
     encryptionData |-> <<>>, signature |-> Null, certificate |-> Null,
     crc32 |-> Null]

\* this.<field> = <decoder call>: nothing is assigned when the call throws.
Assign(img, field, res) ==
    IF res.err # "none"
    THEN [err |-> res.err, image |-> img]
    ELSE [err |-> "none", image |-> [img EXCEPT ![field] = res.val]]

\* Faulty variant: unshift instead of push.
Push_front(img, field, res) ==
    IF res.err # "none"
    THEN [err |-> res.err, image |-> img]
    ELSE [err |-> "none", image |-> [img EXCEPT ![field] = <<res.val[1]>> \o @]]

\* this.<field>.push(<decoder call>): nothing is pushed when the call throws.
Push(img, field, res) ==
    IF res.err # "none"
    THEN [err |-> res.err, image |-> img]
    ELSE [err |-> "none", image |-> [img EXCEPT ![field] = Append(@, res.val[1])]]

\* Faulty variant: an unrecognized tag id is rejected.
UnknownTag_rejected(img) == [err |-> "Unknown tag", image |-> img]

\* No branch of the if/else chain matches: the record is not interpreted.
UnknownTag(img) == [err |-> "none", image |-> img]

\* The if/else chain on tagType.
DispatchTag(img, buf, tagType, offset, tagLength) ==
    IF tagType = GBL_TAG_ID_HEADER_V3
    THEN Assign(img, "header", parseHeaderTag(buf, offset, tagLength))
    ELSE IF tagType = GBL_TAG_ID_BOOTLOADER
    THEN Assign(img, "bootloader", parseBootloaderTag(buf, offset, tagLength))
    ELSE IF tagType = GBL_TAG_ID_APPLICATION
    THEN Assign(img, "application", parseApplicationInfoTag(buf, offset, tagLength))
    ELSE IF tagType = GBL_TAG_ID_METADATA
    THEN Push(img, "metadata", parseMetadataTag(buf, offset, tagLength))
    ELSE IF tagType = GBL_TAG_ID_PROG
    THEN Push(img, "prog", parseProgTag(buf, offset, tagLength, "undefined"))
    ELSE IF tagType = GBL_TAG_ID_PROG_LZ4
    THEN Push(img, "prog", parseProgTag(buf, offset, tagLength, "lz4"))
    ELSE IF tagType = GBL_TAG_ID_PROG_LZMA
    THEN Push(img, "prog", parseProgTag(buf, offset, tagLength, "lzma"))
    ELSE IF tagType = GBL_TAG_ID_ERASEPROG
    THEN Push(img, "prog", parseProgTag(buf, offset, tagLength, "undefined"))
    ELSE IF tagType = GBL_TAG_ID_END
    THEN Assign(img, "crc32", parseEndTag(buf, offset, tagLength))
    ELSE IF tagType = GBL_TAG_ID_SE_UPGRADE
    THEN Assign(img, "seUpgrade", parseSeUpgradeTag(buf, offset, tagLength))
    ELSE IF tagType = GBL_TAG_ID_VERSION_DEPENDENCY
    THEN Assign(img, "versionDependency",
                parseVersionDependencyTag(buf, offset, tagLength))
    ELSE IF tagType = GBL_TAG_ID_ENC_INIT
    THEN Assign(img, "encryptionInit", parseEncryptionInitTag(buf, offset, tagLength))
    ELSE IF tagType = GBL_TAG_ID_ENC_GBL_DATA
    THEN Push(img, "encryptionData", parseEncryptionDataTag(buf, offset, tagLength))
    ELSE IF tagType = GBL_TAG_ID_SIGNATURE
    THEN Assign(img, "signature", parseSignatureTag(buf, offset, tagLength))
    ELSE IF tagType = GBL_TAG_ID_CERTIFICATE
    THEN Assign(img, "certificate", parseCertificateTag(buf, offset, tagLength))
    ELSE UnknownTag(img)

\* Faulty variant: the loop runs only while a whole tag header remains.
LoopCond_wholeHeader(buf, offset) == offset + 8 <= byteLength(buf)

\* while (offset < this.#buffer.byteLength)
LoopCond(buf, offset) == offset < byteLength(buf)

\* The tag header at a loop top: type and declared payload length.
TagTypeAt(buf, offset) == getUint32(buf, offset)
TagLengthAt(buf, offset) == Num(getUint32(buf, offset + 4))

\* Faulty variant: offset = tagLength.
SkipPayload_assigned(offset, tagLength) == tagLength

\* offset += tagLength
SkipPayload(offset, tagLength) == offset + tagLength

\* One pass through the loop body: the two header reads, offset += 8, the
\* dispatch, offset += tagLength.  An exception leaves the image as it was.
LoopBody(img, buf, offset) ==
    IF ~InBounds(buf, offset, 4) \/ ~InBounds(buf, offset + 4, 4)
    THEN [err |-> "RangeError", image |-> img, offset |-> offset]
    ELSE LET tagType == TagTypeAt(buf, offset)
             tagLength == TagLengthAt(buf, offset)
             d == DispatchTag(img, buf, tagType, offset + 8, tagLength)
         IN  IF d.err # "none"
             THEN [err |-> d.err, image |-> img, offset |-> offset + 8]
             ELSE [err |-> "none", image |-> d.image,
                   offset |-> SkipPayload(offset + 8, tagLength)]

\* parse() run to its end on an image: the error it threw, or "none", and
\* the fields it left.
RECURSIVE ParseRun(_, _, _)
ParseRun(img, buf, offset) ==
    IF ~LoopCond(buf, offset)
    THEN [err |-> "none", image |-> img]
    ELSE LET r == LoopBody(img, buf, offset)
         IN  IF r.err # "none"
             THEN [err |-> r.err, image |-> r.image]
             ELSE ParseRun(r.image, buf, r.offset)

\* Faulty variant: the header version is not compared.
isValid_anyVersion(img, buf) ==
    IF img.header = Null THEN Throw("TypeError")
    ELSE LET crc == calculateCRC32(buf)
         IN  IF crc.err # "none" THEN Throw(crc.err)
             ELSE Ret(img.crc32 = crc.val)

\* isValid(): reading .version of a null header throws TypeError; && does
\* not evaluate its right operand when the left one is false.
isValid(img, buf) ==
    IF img.header = Null THEN Throw("TypeError")
    ELSE IF img.header[1].version # GBL_VERSION THEN Ret(FALSE)
    ELSE LET crc == calculateCRC32(buf)
         IN  IF crc.err # "none" THEN Throw(crc.err)
             ELSE Ret(img.crc32 = crc.val)

---------------------------------------------------------------------------
(* Input buffers.  A buffer is the concatenation of records, each an       *)
(* 8-byte header (tag id, declared length; little-endian) and the payload  *)
(* bytes actually present, followed by stray bytes.  The record list is    *)
(* kept beside the buffer so that properties can speak of "the records of  *)
(* the buffer" without re-running the parser.                              *)

LE32(w) == <<w.lo % 256, w.lo \div 256, w.hi % 256, w.hi \div 256>>

Rec(tag, len, body) == [tag |-> tag, len |-> len, body |-> body]

Fill(n, seed) == [i \in 1..n |-> (seed + 37 * i) % 256]

Full(tag, n, seed) == Rec(tag, n, Fill(n, seed))

Encode(d) == LE32(d.tag) \o LE32(FromNum(d.len)) \o d.body

RECURSIVE EncodeAll(_)
EncodeAll(ds) == IF ds = <<>> THEN <<>> ELSE Encode(Head(ds)) \o EncodeAll(Tail(ds))

HeaderRec(version) == Rec(GBL_TAG_ID_HEADER_V3, 8, LE32(version) \o LE32(W(0, 0)))

OtherVersion == W(\h0200, \h0000)

\* A tag id that no branch of the dispatch matches.
UnrecognizedTagId == W(\hF00D, \h0DF0)

\* The trailer whose payload is the CRC32 of every byte before that payload.
GoodTrailer(ds) ==
    Rec(GBL_TAG_ID_END, 4,
        LE32(CRC32(EncodeAll(ds) \o LE32(GBL_TAG_ID_END) \o LE32(FromNum(4)))))

BadTrailer == Rec(GBL_TAG_ID_END, 4, <<1, 2, 3, 4>>)

\* Records that may stand between the header and the trailer of an image.
MiddleRecords ==
    { Full(GBL_TAG_ID_METADATA, 3, 1),
      Full(GBL_TAG_ID_PROG, 6, 2),
      Full(GBL_TAG_ID_PROG_LZ4, 5, 3),
      Full(GBL_TAG_ID_ENC_GBL_DATA, 2, 4),
      Full(UnrecognizedTagId, 2, 5),
      HeaderRec(OtherVersion),
      BadTrailer }

\* The payload size the source checks for each tag that has a length check.
CheckedTags ==
    { <<GBL_TAG_ID_HEADER_V3, 8>>, <<GBL_TAG_ID_BOOTLOADER, 8>>,
      <<GBL_TAG_ID_APPLICATION, 28>>, <<GBL_TAG_ID_PROG, 4>>,
      <<GBL_TAG_ID_PROG_LZ4, 4>>, <<GBL_TAG_ID_PROG_LZMA, 4>>,
      <<GBL_TAG_ID_ERASEPROG, 4>>, <<GBL_TAG_ID_END, 4>>,
      <<GBL_TAG_ID_SE_UPGRADE, 8>>, <<GBL_TAG_ID_VERSION_DEPENDENCY, 8>>,
      <<GBL_TAG_ID_ENC_INIT, 16>>, <<GBL_TAG_ID_SIGNATURE, 64>>,
      <<GBL_TAG_ID_CERTIFICATE, 136>> }

UncheckedTags == { GBL_TAG_ID_METADATA, GBL_TAG_ID_ENC_GBL_DATA, UnrecognizedTagId }

\* One record of every kind: at, one below and one above the checked size
\* with the payload present, and with a payload one byte short of, or far
\* shorter than, the declared length.
ProbeRecords ==
    UNION { { Full(t[1], t[2], 6), Full(t[1], t[2] - 1, 7), Full(t[1], t[2] + 1, 8),
              Rec(t[1], t[2], Fill(t[2] - 1, 9)) } : t \in CheckedTags }
    \cup UNION { { Full(t, 0, 10), Full(t, 3, 11), Rec(t, 3, Fill(2, 12)),
                   Rec(t, 1073741824, <<>>) } : t \in UncheckedTags }

ProbePrefixes ==
    { <<>>, <<HeaderRec(GBL_VERSION)>>,
      <<HeaderRec(GBL_VERSION), Full(GBL_TAG_ID_METADATA, 3, 1)>> }

StrayBytes == { <<>>, <<7, 7, 7>> }

\* An image whose END record is followed by a program section.  The flash
\* address of that section is chosen so that the CRC32 of all but the last
\* four bytes of the buffer is the value the END record stores.
ForgedImage ==
    << HeaderRec(GBL_VERSION),
       Rec(GBL_TAG_ID_END, 4, <<17, 34, 51, 68>>),
       Rec(GBL_TAG_ID_PROG, 8, <<145, 203, 2, 159, 222, 173, 190, 239>>) >>

---------------------------------------------------------------------------
(* State.                                                                  *)

VARIABLES
    records,    \* the records the buffer was built from
    stray,      \* the bytes that follow them
    buffer,     \* #buffer: the bytes given to the constructor
    image,      \* the public fields of the instance
    phase,      \* "unconstructed", "parsing" (at the top of the loop of
                \* parse()), "ready" (the caller holds the instance), or
                \* "discarded" (the constructor threw: no instance exists)
    viaCtor,    \* the running parse() was called by the constructor
    offset,     \* the local variable offset of parse()
    err,        \* the exception the last parse() threw, or "none"
    parses,     \* calls of parse() so far
    steps,      \* passes through the loop body in the current parse()
    valid       \* the outcome of the last isValid() since the last parse()

\* GeckoBootloaderClient.flashFirmware(data, options), called with the
\* buffer as data.
VARIABLES
    signal,     \* options.signal: "none" (not passed), "clear" or "aborted"
    pc,         \* where flashFirmware is suspended: "idle" (not called),
                \* "start", "chunk", "finish" (awaiting that write),
                \* "timer" (awaiting the wait between chunks), "settled"
    options,    \* reliable, chunkSize and whether progress was passed
    start,      \* the loop variable start
    writes,     \* the writes issued to the device, in order
    acked,      \* how many of them have completed
    reported,   \* the values the progress callback received
    result      \* "pending", "resolved", or the name of the rejection

imageVars == <<records, stray, buffer, image, phase, viaCtor, offset, err, parses,
               steps, valid>>
clientVars == <<signal, pc, options, start, writes, acked, reported, result>>
vars == <<imageVars, clientVars>>

NotCalled == [err |-> "uncalled", val |-> Null]

InputOk(ds, tl) ==
    /\ records = ds
    /\ stray = tl
    /\ buffer = EncodeAll(ds) \o tl

\* Images: a header, up to MaxRecords records, and a trailer that is right,
\* wrong or missing.
InitImages ==
    \E n \in 0..MaxRecords :
        \E body \in [1..n -> MiddleRecords] :
            \E trailer \in {"good", "bad", "none"} :
                LET ds == <<HeaderRec(GBL_VERSION)>> \o body
                IN  InputOk(CASE trailer = "good" -> Append(ds, GoodTrailer(ds))
                              [] trailer = "bad" -> Append(ds, BadTrailer)
                              [] OTHER -> ds,
                            <<>>)

\* Probes: one record of any kind after a short prefix, then stray bytes.
InitProbes ==
    \E pre \in ProbePrefixes :
        \E d \in ProbeRecords :
            \E tl \in StrayBytes :
                InputOk(Append(pre, d), tl)

\* The empty buffer, a buffer shorter than a tag header, and images with a
\* record after the trailer.
InitSpecial ==
    \/ \E tl \in StrayBytes : InputOk(<<>>, tl)
    \/ InputOk(ForgedImage, <<>>)
    \/ LET ds == <<HeaderRec(GBL_VERSION)>>
       IN  InputOk(<<ds[1], GoodTrailer(ds), Full(GBL_TAG_ID_METADATA, 3, 1)>>, <<>>)

\* flashFirmware's defaults: { reliable = false, chunkSize = 64 }, no
\* progress callback.
DefaultOptions == [reliable |-> FALSE, chunkSize |-> DefaultChunkSize, progress |-> FALSE]

\* Nothing constructed, nothing called.
InitState ==
    /\ image = NewImage
    /\ phase = "unconstructed"
    /\ viaCtor = FALSE
    /\ offset = 0
    /\ err = "none"
    /\ parses = 0
    /\ steps = 0
    /\ valid = NotCalled
    /\ pc = "idle"
    /\ options = DefaultOptions
    /\ start = 0
    /\ writes = <<>>
    /\ acked = 0
    /\ reported = <<>>
    /\ result = "pending"

Init ==
    /\ InitImages \/ InitProbes \/ InitSpecial
    /\ InitState
    /\ signal = "none"

---------------------------------------------------------------------------
(* Operations.                                                             *)

\* new GeckoBootloaderImage(buffer, parse): with parse, the constructor
\* calls parse() before it returns.
Construct(parse) ==
    /\ phase = "unconstructed"
    /\ phase' = IF parse THEN "parsing" ELSE "ready"
    /\ viaCtor' = parse
    /\ parses' = IF parse THEN 1 ELSE 0
    /\ offset' = 0
    /\ steps' = 0
    /\ UNCHANGED <<records, stray, buffer, image, err, valid>>
    /\ UNCHANGED clientVars

\* The caller calls parse() on the instance it holds: offset = 0.
Parse ==
    /\ phase = "ready"
    /\ parses < MaxParses
    /\ phase' = "parsing"
    /\ viaCtor' = FALSE
    /\ parses' = parses + 1
    /\ offset' = 0
    /\ err' = "none"
    /\ valid' = NotCalled
    /\ steps' = 0
    /\ UNCHANGED <<records, stray, buffer, image>>
    /\ UNCHANGED clientVars

\* One evaluation of the loop condition of parse() and, when it holds, one
\* pass through the loop body.  parse() returns when the condition fails;
\* an exception ends parse() and, when the constructor called it, the
\* construction.
ParseStep ==
    /\ phase = "parsing"
    /\ IF ~LoopCond(buffer, offset)
       THEN /\ phase' = "ready"
            /\ UNCHANGED <<image, offset, err, steps>>
       ELSE LET r == LoopBody(image, buffer, offset)
            IN  /\ image' = r.image
                /\ offset' = r.offset
                /\ err' = r.err
                /\ steps' = steps + 1
                /\ phase' = IF r.err = "none" THEN "parsing"
                            ELSE IF viaCtor THEN "discarded" ELSE "ready"
    /\ UNCHANGED <<records, stray, buffer, viaCtor, parses, valid>>
    /\ UNCHANGED clientVars

\* The caller calls isValid() on the instance it holds.
IsValid ==
    /\ phase = "ready"
    /\ valid' = isValid(image, buffer)
    /\ UNCHANGED <<records, stray, buffer, image, phase, viaCtor, offset, err, parses,
                   steps>>
    /\ UNCHANGED clientVars

Next ==
    \/ \E parse \in BOOLEAN : Construct(parse)
    \/ Parse
    \/ ParseStep
    \/ IsValid

Spec == Init /\ [][Next]_vars

\* parse() is synchronous: once called, it runs on until it returns or
\* throws.
SpecLive == Spec /\ WF_vars(ParseStep)

---------------------------------------------------------------------------
(* GeckoBootloaderClient (src/src/GeckoBootloaderClient.js): flashFirmware. *)
(* An async function runs without interruption from one await to the next: *)
(* each action below is the call, or the continuation of one await, up to   *)
(* the next await or the settling of the promise.                           *)

GBL_OTA_COMMAND == [START_OTA |-> 0, FINISH_OTA |-> 3, CLOSE_CONNECTION |-> 4]

\* otaControl(command): #otaControlChar.writeValueWithResponse(Uint8Array.of(command))
ControlWrite(command) == [char |-> "control", value |-> <<command>>, response |-> TRUE]

\* #otaDataChar.writeValueWithResponse(chunk) when reliable, else
\* #otaDataChar.writeValueWithoutResponse(chunk)
DataWrite(chunk, reliable) == [char |-> "data", value |-> chunk, response |-> reliable]

\* data.slice(from, to): to is clamped to the length of data.
Slice(data, from, to) ==
    SubSeq(data, from + 1, IF to < byteLength(data) THEN to ELSE byteLength(data))

\* Faulty variant: signal.throwIfAborted() is left out.
Aborted_unchecked(sig) == FALSE

\* signal?.throwIfAborted() throws
Aborted(sig) == sig = "aborted"

\* Faulty variant: consecutive chunks share a byte.
NextStart_overlap(st, chunkSize) == st + chunkSize - 1

\* start += chunkSize
NextStart(st, chunkSize) == st + chunkSize

\* (start / total) * 100, kept as a fraction
Percent(st, total) == [num |-> st * 100, den |-> total]

\* flashFirmware got as far as the next await, or threw.
Suspended(at, ws) == [pc |-> at, writes |-> ws, result |-> "pending"]
Rejected(ws, name) == [pc |-> "settled", writes |-> ws, result |-> name]

\* After the loop: the last check of the signal, then FINISH_OTA.
AfterLoop(ws, sig) ==
    IF Aborted(sig)
    THEN Rejected(ws, "AbortError")
    ELSE Suspended("finish", Append(ws, ControlWrite(GBL_OTA_COMMAND.FINISH_OTA)))

\* From the loop condition with start = st: the check of the signal and the
\* write of the next chunk, or the end of the loop.
LoopTop(data, opts, st, ws, sig) ==
    IF st < byteLength(data)
    THEN IF Aborted(sig)
         THEN Rejected(ws, "AbortError")
         ELSE Suspended("chunk",
                        Append(ws, DataWrite(Slice(data, st, st + opts.chunkSize),
                                             opts.reliable)))
    ELSE AfterLoop(ws, sig)

\* The caller calls flashFirmware(buffer, options): the first check of the
\* signal, then START_OTA.
FlashFirmware(reliable, chunkSize, progress) ==
    /\ pc = "idle"
    /\ phase # "parsing"
    /\ options' = [reliable |-> reliable, chunkSize |-> chunkSize, progress |-> progress]
    /\ LET r == IF Aborted(signal)
                THEN Rejected(writes, "AbortError")
                ELSE Suspended("start",
                               Append(writes, ControlWrite(GBL_OTA_COMMAND.START_OTA)))
       IN  pc' = r.pc /\ writes' = r.writes /\ result' = r.result
    /\ UNCHANGED <<signal, start, acked, reported>>
    /\ UNCHANGED imageVars

\* The write of START_OTA completed: the loop begins with start = 0.
StartWritten ==
    /\ pc = "start"
    /\ acked' = acked + 1
    /\ start' = 0
    /\ LET r == LoopTop(buffer, options, 0, writes, signal)
       IN  pc' = r.pc /\ writes' = r.writes /\ result' = r.result
    /\ UNCHANGED <<signal, options, reported>>
    /\ UNCHANGED imageVars

\* The rest of a pass through the loop once the chunk is on its way: the
\* progress callback, start += chunkSize, and the next pass.
AfterChunk ==
    /\ reported' = IF options.progress
                   THEN Append(reported, Percent(start, byteLength(buffer)))
                   ELSE reported
    /\ start' = NextStart(start, options.chunkSize)
    /\ LET r == LoopTop(buffer, options, NextStart(start, options.chunkSize), writes, signal)
       IN  pc' = r.pc /\ writes' = r.writes /\ result' = r.result

\* The write of a chunk completed: in reliable mode the pass goes on, else
\* flashFirmware waits for the timer.
ChunkWritten ==
    /\ pc = "chunk"
    /\ acked' = acked + 1
    /\ IF options.reliable
       THEN AfterChunk
       ELSE pc' = "timer" /\ UNCHANGED <<start, writes, reported, result>>
    /\ UNCHANGED <<signal, options>>
    /\ UNCHANGED imageVars

\* setTimeout(r, wait) fired.
TimerFired ==
    /\ pc = "timer"
    /\ AfterChunk
    /\ UNCHANGED <<signal, options, acked>>
    /\ UNCHANGED imageVars

\* The write of FINISH_OTA completed: progress(100), and the promise
\* resolves.
FinishWritten ==
    /\ pc = "finish"
    /\ acked' = acked + 1
    /\ reported' = IF options.progress
                   THEN Append(reported, [num |-> 100, den |-> 1])
                   ELSE reported
    /\ pc' = "settled"
    /\ result' = "resolved"
    /\ UNCHANGED <<signal, options, start, writes>>
    /\ UNCHANGED imageVars

\* The promise of the write in flight rejects (the device is out of reach):
\* the await throws and flashFirmware rejects with that error.
WriteFails ==
    /\ pc \in {"start", "chunk", "finish"}
    /\ pc' = "settled"
    /\ result' = "NetworkError"
    /\ UNCHANGED <<signal, options, start, writes, acked, reported>>
    /\ UNCHANGED imageVars

\* controller.abort(), at any time before flashFirmware settles.
Abort ==
    /\ signal = "clear"
    /\ pc # "settled"
    /\ signal' = "aborted"
    /\ UNCHANGED <<pc, options, start, writes, acked, reported, result>>
    /\ UNCHANGED imageVars

ChunkSizes == {SmallChunkSize, DefaultChunkSize}

\* The buffers flashed: the empty buffer, three stray bytes, images with at
\* most one record between header and trailer, and images with a record
\* after the trailer.
InitFlashInputs ==
    \/ InitSpecial
    \/ \E n \in 0..1 :
           \E body \in [1..n -> MiddleRecords] :
               LET ds == <<HeaderRec(GBL_VERSION)>> \o body
               IN  InputOk(Append(ds, GoodTrailer(ds)), <<>>)

InitClient ==
    /\ InitFlashInputs
    /\ InitState
    /\ signal \in {"none", "clear"}

\* What the caller does with the image (synchronous, and sharing no state
\* with the client) comes before the call of flashFirmware.
NextClient ==
    \/ pc = "idle" /\ \E parse \in BOOLEAN : Construct(parse)
    \/ pc = "idle" /\ ParseStep
    \/ pc = "idle" /\ IsValid
    \/ \E reliable \in BOOLEAN : \E chunkSize \in ChunkSizes : \E progress \in BOOLEAN :
           FlashFirmware(reliable, chunkSize, progress)
    \/ StartWritten
    \/ ChunkWritten
    \/ TimerFired
    \/ FinishWritten
    \/ WriteFails
    \/ Abort

SpecClient == InitClient /\ [][NextClient]_vars

---------------------------------------------------------------------------
(* Properties.                                                             *)

\* The last parse() returned normally (it did not throw).
ParseCompleted == phase = "ready" /\ parses >= 1 /\ err = "none"

\* parse() has run once on a new image, to its return or to its exception.
FirstParseOver == phase \in {"ready", "discarded"} /\ parses = 1

ReturnedTrue == valid = Ret(TRUE)
ReturnedFalse == valid = Ret(FALSE)

\* The buffer is exactly its records: every payload is as long as declared
\* and no byte follows the last record.
Fits(d) == d.len = Len(d.body)
WellFormedInput == stray = <<>> /\ \A i \in 1..Len(records) : Fits(records[i])

RecognizedTagIds ==
    { GBL_TAG_ID_HEADER_V3, GBL_TAG_ID_BOOTLOADER, GBL_TAG_ID_APPLICATION,
      GBL_TAG_ID_METADATA, GBL_TAG_ID_PROG, GBL_TAG_ID_PROG_LZ4,
      GBL_TAG_ID_PROG_LZMA, GBL_TAG_ID_ERASEPROG, GBL_TAG_ID_END,
      GBL_TAG_ID_SE_UPGRADE, GBL_TAG_ID_VERSION_DEPENDENCY, GBL_TAG_ID_ENC_INIT,
      GBL_TAG_ID_ENC_GBL_DATA, GBL_TAG_ID_SIGNATURE, GBL_TAG_ID_CERTIFICATE }

ProgTagIds ==
    { GBL_TAG_ID_PROG, GBL_TAG_ID_PROG_LZ4, GBL_TAG_ID_PROG_LZMA, GBL_TAG_ID_ERASEPROG }

\* The payload-length contract of each record type, as the format states it.
LengthContract(tag, len) ==
    CASE tag = GBL_TAG_ID_HEADER_V3 -> len = 8
      [] tag = GBL_TAG_ID_APPLICATION -> len = 28
      [] tag = GBL_TAG_ID_VERSION_DEPENDENCY -> len = 8
      [] tag = GBL_TAG_ID_ENC_INIT -> len = 16
      [] tag = GBL_TAG_ID_SIGNATURE -> len = 64
      [] tag = GBL_TAG_ID_CERTIFICATE -> len = 136
      [] tag = GBL_TAG_ID_END -> len = 4
      [] tag = GBL_TAG_ID_BOOTLOADER -> len >= 8
      [] tag \in ProgTagIds -> len >= 4
      [] tag = GBL_TAG_ID_SE_UPGRADE -> len >= 8
      [] OTHER -> TRUE

FormatErrorOf(tag) ==
    CASE tag = GBL_TAG_ID_HEADER_V3 -> "Invalid header tag length"
      [] tag = GBL_TAG_ID_APPLICATION -> "Invalid application info tag length"
      [] tag = GBL_TAG_ID_VERSION_DEPENDENCY -> "Invalid version dependency tag length"
      [] tag = GBL_TAG_ID_ENC_INIT -> "Invalid encryption init tag length"
      [] tag = GBL_TAG_ID_SIGNATURE -> "Invalid signature tag length"
      [] tag = GBL_TAG_ID_CERTIFICATE -> "Invalid certificate tag length"
      [] tag = GBL_TAG_ID_END -> "Invalid end tag length"
      [] tag = GBL_TAG_ID_BOOTLOADER -> "Invalid bootloader tag length"
      [] tag \in ProgTagIds -> "Invalid program data tag length"
      [] tag = GBL_TAG_ID_SE_UPGRADE -> "Invalid SE upgrade tag length"
      [] OTHER -> "none"

\* C1: isValid() returns true only if a Header record was parsed, its
\* version is 0x03000000, and the CRC32 of bytes [0, byteLength - 4) of the
\* buffer equals the checksum the END record stored.
C1_ValidOnlyIf ==
    ReturnedTrue =>
        /\ image.header # Null
        /\ image.header[1].version = W(\h0300, \h0000)
        /\ image.crc32 # Null
        /\ image.crc32[1] = CRC32(SubSeq(buffer, 1, Len(buffer) - 4))

C1_Witness == ParseCompleted /\ ReturnedTrue

\* C2: after a parse() that completed without error, isValid() returns a
\* boolean and never raises; without a Header or without a trailer
\* checksum it returns false.
C2_IsValidNeverRaises ==
    (ParseCompleted /\ valid # NotCalled) =>
        /\ valid.err = "none"
        /\ (image.header = Null \/ image.crc32 = Null) => ReturnedFalse

\* A buffer built as the claim C3 describes: a Header record with version
\* 0x03000000, well-formed records (each payload present and within its
\* type's length contract), and a last END record whose payload is the
\* CRC32 of all the bytes before that payload.
IsHeaderV3(d) ==
    /\ d.tag = GBL_TAG_ID_HEADER_V3
    /\ d.len = 8
    /\ Fits(d)
    /\ SubSeq(d.body, 1, 4) = <<0, 0, 0, 3>>

BuiltValid ==
    /\ stray = <<>>
    /\ Len(records) >= 2
    /\ IsHeaderV3(records[1])
    /\ \A i \in 2..(Len(records) - 1) :
           Fits(records[i]) /\ LengthContract(records[i].tag, records[i].len)
    /\ LET n == Len(records)
           before == EncodeAll(SubSeq(records, 1, n - 1)) \o <<252, 4, 4, 252, 4, 0, 0, 0>>
       IN  /\ records[n].tag = GBL_TAG_ID_END
           /\ records[n].len = 4
           /\ records[n].body = LE32(CRC32(before))

\* No record after the first is a Header record of another version.
NoOtherVersionHeader ==
    \A i \in 2..Len(records) :
        records[i].tag = GBL_TAG_ID_HEADER_V3 => IsHeaderV3(records[i])

\* C3 as stated: on every buffer built that way parse() succeeds and
\* isValid() returns true.
C3_BuiltValidIsValid_Original ==
    (phase \in {"ready", "discarded"} /\ parses >= 1 /\ BuiltValid) =>
        /\ err = "none"
        /\ valid # NotCalled => ReturnedTrue

\* C3, amended: on every buffer built that way in which no later Header
\* record carries another version, parse() succeeds and isValid() returns
\* true.
C3_BuiltValidIsValid ==
    (phase \in {"ready", "discarded"} /\ parses >= 1 /\ BuiltValid
        /\ NoOtherVersionHeader) =>
        /\ err = "none"
        /\ valid # NotCalled => ReturnedTrue

C3_Witness ==
    /\ ParseCompleted /\ BuiltValid /\ NoOtherVersionHeader /\ ReturnedTrue
    /\ Len(records) >= 4

\* C4: a record, of a recognized tag or not, whose declared payload does
\* not fit before the end of the buffer makes parse() fail; so a parse()
\* that returned normally ended with the cursor exactly at the end of the
\* buffer.
C4_OverrunFails == ParseCompleted => offset = byteLength(buffer)

\* C5: when 1 to 7 bytes remain at the top of the parse loop, parse() fails
\* with an error and does not complete normally.
C5_TruncatedHeaderFails ==
    [][ (phase = "parsing" /\ (Len(buffer) - offset) \in 1..7) =>
            /\ phase' \in {"ready", "discarded"}
            /\ err' = "RangeError"
            /\ image' = image ]_vars

C5_Witness ==
    /\ phase \in {"ready", "discarded"}
    /\ err = "RangeError"
    /\ stray # <<>>
    /\ \A i \in 1..Len(records) : Fits(records[i])
    /\ Len(records) >= 1
    /\ offset = Len(buffer) - Len(stray)

\* C6: a recognized record whose declared length breaks its type's
\* contract makes parse() fail with that type's format error, and nothing
\* of the record is stored in the image.
C6_LengthContractEnforced ==
    [][ ( /\ phase = "parsing"
          /\ offset + 8 <= Len(buffer)
          /\ ~LengthContract(getUint32(buffer, offset),
                             Num(getUint32(buffer, offset + 4))) ) =>
            /\ phase' \in {"ready", "discarded"}
            /\ err' = FormatErrorOf(getUint32(buffer, offset))
            /\ image' = image ]_vars

C6_Witness ==
    /\ phase \in {"ready", "discarded"}
    /\ err = "Invalid certificate tag length"
    /\ image.header # Null

IsMetadataRec(d) == d.tag = GBL_TAG_ID_METADATA
IsEncryptionDataRec(d) == d.tag = GBL_TAG_ID_ENC_GBL_DATA
IsProgRec(d) == d.tag \in ProgTagIds
IsRecognizedRec(d) == d.tag \in RecognizedTagIds

PayloadsOf(ds) == [i \in 1..Len(ds) |-> ds[i].body]

\* The payload bytes a decoded program section stands for.
ProgPayload(p) == LE32(p.flashStartAddress) \o p.data

CompressionOf(tag) ==
    CASE tag = GBL_TAG_ID_PROG_LZ4 -> "lz4"
      [] tag = GBL_TAG_ID_PROG_LZMA -> "lzma"
      [] OTHER -> "undefined"

C8_UnknownTagSkipped ==
    (FirstParseOver /\ WellFormedInput) =>
        LET without == ParseRun(NewImage, EncodeAll(SelectSeq(records, IsRecognizedRec)), 0)
        IN  /\ err = without.err
            /\ image = without.image

C8_Witness ==
    /\ ParseCompleted /\ parses = 1 /\ WellFormedInput
    /\ \E i \in 2..(Len(records) - 1) :
           /\ ~IsRecognizedRec(records[i])
           /\ records[i].len > 0
           /\ IsRecognizedRec(records[i - 1])
           /\ IsRecognizedRec(records[i + 1])
    /\ image.header # Null /\ image.crc32 # Null

\* C9: parsing is all-or-nothing: when parse() has thrown, the instance
\* the caller holds has no field or list filled from the records before
\* the failing one.
C9_AllOrNothing == (phase = "ready" /\ err # "none") => image = NewImage

\* C10: whenever isValid() returns true, the END record is the last record
\* of the buffer and the stored checksum is the CRC32 of the bytes before
\* that record's payload.
C10_ValidImpliesTrailerLast ==
    (ReturnedTrue /\ WellFormedInput) =>
        LET n == Len(records)
        IN  /\ n >= 1
            /\ records[n].tag = GBL_TAG_ID_END
            /\ image.crc32 =
                   Some(CRC32(EncodeAll(SubSeq(records, 1, n - 1))
                              \o <<252, 4, 4, 252, 4, 0, 0, 0>>))

---------------------------------------------------------------------------
(* Properties of flashFirmware.                                            *)

RECURSIVE Concat(_)
Concat(seqs) == IF seqs = <<>> THEN <<>> ELSE Head(seqs) \o Concat(Tail(seqs))

IsCommand(w, command) == w.char = "control" /\ w.value = <<command>>

\* The payloads of the data writes among ws, in order.
DataWritten(ws) == Concat([k \in 1..Len(ws) |-> IF ws[k].char = "data" THEN ws[k].value ELSE <<>>])

Resolved == pc = "settled" /\ result = "resolved"

\* C11: when flashFirmware resolves, the writes were one START_OTA (0x00)
\* on the control characteristic, then the chunks data[0, chunkSize),
\* data[chunkSize, 2*chunkSize), ... on the data characteristic, whose
\* concatenation is data, then one FINISH_OTA (0x03) on the control
\* characteristic; every write is issued only after the writes before it
\* completed, so no chunk precedes the acknowledgement of START_OTA, and
\* FINISH_OTA is issued only after every chunk was written.
C11_WritesInOrder ==
    [][ /\ Resolved' =>
            LET ws == writes'
                n == Len(ws)
                size == options'.chunkSize
                total == Len(buffer')
            IN  /\ n >= 2
                /\ IsCommand(ws[1], 0)
                /\ IsCommand(ws[n], 3)
                /\ \A k \in 2..(n - 1) :
                       /\ ws[k].char = "data"
                       /\ (k - 2) * size < total
                       /\ ws[k].value =
                              SubSeq(buffer', (k - 2) * size + 1,
                                     IF (k - 1) * size < total THEN (k - 1) * size ELSE total)
                /\ DataWritten(ws) = buffer'
        /\ Len(writes') > Len(writes) =>
            LET w == writes'[Len(writes')]
            IN  /\ writes' = Append(writes, w)
                /\ acked' = Len(writes)
                /\ w.char = "data" => Len(writes) >= 1 /\ IsCommand(writes[1], 0)
                /\ IsCommand(w, 3) => DataWritten(writes) = buffer
      ]_vars

C11_Witness ==
    /\ Resolved
    /\ Len(writes) >= 5
    /\ Len(writes[Len(writes) - 1].value) < options.chunkSize

\* The continuation flashFirmware runs next begins with a check of the
\* signal: the call itself, and what follows the write of START_OTA, the
\* write of a chunk in reliable mode, and the wait between chunks.
AtCheck == pc \in {"idle", "start", "timer"} \/ (pc = "chunk" /\ options.reliable)

\* C12 as stated: a signal aborted at any point before flashFirmware
\* settles makes it reject with an AbortError (runs in which a write to the
\* device failed set aside).
C12_AbortAlwaysRejects_Original ==
    (pc = "settled" /\ signal = "aborted" /\ result # "NetworkError") =>
        result = "AbortError"

\* C12, amended: a signal that is aborted when flashFirmware reaches one of
\* its checks (at the call, before each chunk, before FINISH_OTA) makes it
\* reject with an AbortError at that check without a further write; no
\* write at all is issued while the signal is aborted, none after the
\* rejection, and none at all when the signal was aborted at the call.
C12_AbortObservedAtChecks ==
    [][ /\ (signal = "aborted" /\ AtCheck /\ pc' # pc /\ result' # "NetworkError") =>
            (pc' = "settled" /\ result' = "AbortError" /\ writes' = writes)
        /\ Len(writes') > Len(writes) => signal # "aborted"
        /\ result = "AbortError" => writes' = writes
        /\ (pc = "idle" /\ result' = "AbortError") => writes' = <<>>
      ]_vars

C12_Witness ==
    /\ result = "AbortError"
    /\ Len(writes) >= 3
    /\ DataWritten(writes) # buffer

\* C13: flashFirmware writes START_OTA or a data chunk for a buffer only
\* after isValid() was evaluated on the image of that buffer and returned
\* true.  (No action of SpecClient resets valid, so valid = Ret(TRUE) says
\* that isValid() has returned true at some earlier point.)
C13_ValidatedBeforeTransfer == Len(writes) > 0 => ReturnedTrue

---------------------------------------------------------------------------
(* Properties of parse() called again, and of its loop.                    *)

\* C14: parse() is idempotent: when parse() is called on an image that was
\* already parsed and returns, every field and list is as the first parse
\* left it, one list element per record of the buffer.
C14_ReparseIdempotent ==
    (phase = "ready" /\ parses >= 2 /\ err = "none") =>
        image = ParseRun(NewImage, buffer, 0).image

\* bufferLength / 8, rounded up
MaxSteps(buf) == (byteLength(buf) + 7) \div 8

\* C15: the loop of parse() terminates, normally or with an error: no pass
\* through the loop body moves the cursor backwards, a pass after which
\* the loop goes on has moved it forward by at least 8 bytes (one tag
\* header and the declared payload length), and there are at most
\* bufferLength / 8 (rounded up) passes.
C15_LoopTerminates ==
    /\ [][ steps' # steps /\ steps' # 0 =>
             /\ steps' = steps + 1
             /\ offset' >= offset
             /\ phase' = "parsing" => offset' >= offset + 8
             /\ steps' <= MaxSteps(buffer)
         ]_vars
    /\ (phase = "parsing") ~> (phase # "parsing")

\* A parse that ended after several passes, one short of the bound, over
\* a buffer with a record of declared length 0.
C15_Witness ==
    /\ phase = "ready"
    /\ parses = 1
    /\ steps >= 3
    /\ steps = MaxSteps(buffer) - 1
    /\ \E i \in 1..Len(records) : records[i].len = 0

====
